---- MODULE Spec2Model ----
(***************************************************************************)
(* A model of autocrc's verification engine (src/src/autocrc.py): the      *)
(* filename and sfv-line parsers, get_crcs, crc32_of_file, check_dir and   *)
(* Model.run with the observer notifications it emits.                     *)
(*                                                                         *)
(* File names, sfv lines and checksums are sequences of one-character      *)
(* strings, so that lower(), upper(), the regular expressions and sorted() *)
(* are modelled by what they do to the characters.                         *)
(***************************************************************************)
EXTENDS Integers, Sequences, FiniteSets, TLC

VARIABLES
    flags,       \* Model.flags: the optparse values
    world,       \* which of the file systems below the run is made in
    file_names,  \* Model.file_names: explicit file arguments
    dir_names,   \* Model.dir_names: directory arguments
    cwd,         \* the process working directory (absolute path)
    pc,          \* position of the caller in Model.run
    todo,        \* the units of run's two loops that are still to do
    queue,       \* check_dir: the sorted items still to verify
    dir_stats,   \* every directory Status check_dir created, the last one
                 \* being dir_stat of the unit in progress
    total_stat,  \* Model.total_stat
    events,      \* the hook calls made so far, in order
    raised,      \* the exception that left run, if any
    fin,         \* input of the function under test (function specifications)
    fout,        \* its result
    want_abort,  \* GuiModel.want_abort
    reading,     \* crc32_of_file: position in map_ and current, while a
                 \* GuiModel reads a file block by block
    running,     \* Gui.running
    model,       \* Gui.model: the GuiModel made last (0: none yet)
    status,      \* the text of the window's status bar
    threads,     \* the GuiModel objects made and the threads running them
    posted       \* the events posted to the window and not yet handled

vars == <<flags, world, file_names, dir_names, cwd, pc, todo, queue,
          dir_stats, total_stat, events, raised, fin, fout, want_abort, reading,
          running, model, status, threads, posted>>

engineVars == <<flags, world, file_names, dir_names, cwd, pc, todo, queue,
                dir_stats, total_stat, events, raised>>

-----------------------------------------------------------------------------
(* Characters and strings                                                  *)

LowerLetters ==
    <<"a","b","c","d","e","f","g","h","i","j","k","l","m",
      "n","o","p","q","r","s","t","u","v","w","x","y","z">>

UpperLetters ==
    <<"A","B","C","D","E","F","G","H","I","J","K","L","M",
      "N","O","P","Q","R","S","T","U","V","W","X","Y","Z">>

DecimalDigits == <<"0","1","2","3","4","5","6","7","8","9">>

\* The characters of the model in code point order (str comparison).
CodeOrder ==
    <<"\n", " ", "(", ")", ".", "/">> \o DecimalDigits \o <<";">>
    \o UpperLetters \o <<"[", "\\", "]", "_">> \o LowerLetters

Range(s) == {s[i] : i \in DOMAIN s}

IndexOf(s, c) == CHOOSE i \in DOMAIN s : s[i] = c

Ord(c) == IndexOf(CodeOrder, c)

UpperSet == Range(UpperLetters)

LowerSet == Range(LowerLetters)

\* str.lower() and str.upper() on one character
LowerChar(c) ==
    IF c \in UpperSet THEN LowerLetters[IndexOf(UpperLetters, c)] ELSE c

UpperChar(c) ==
    IF c \in LowerSet THEN UpperLetters[IndexOf(LowerLetters, c)] ELSE c

Lower(s) == [i \in DOMAIN s |-> LowerChar(s[i])]

Upper(s) == [i \in DOMAIN s |-> UpperChar(s[i])]

HexSet == Range(DecimalDigits) \cup {"a","b","c","d","e","f","A","B","C","D","E","F"}

\* [a-fA-F0-9]
IsHex(c) == c \in HexSet

\* \s for the characters of the model
IsSpace(c) == c \in {" ", "\n"}

\* str.endswith
EndsWith(s, suffix) ==
    /\ Len(s) >= Len(suffix)
    /\ SubSeq(s, Len(s) - Len(suffix) + 1, Len(s)) = suffix

\* Comparison of two str values: lexicographic on code points
RECURSIVE StrLess(_, _)
StrLess(a, b) ==
    IF b = <<>> THEN FALSE
    ELSE IF a = <<>> THEN TRUE
    ELSE IF a[1] # b[1] THEN Ord(a[1]) < Ord(b[1])
    ELSE StrLess(Tail(a), Tail(b))

\* A failed re.match, and the None that parse returns then
None == <<>>

CrcLen == 8

-----------------------------------------------------------------------------
(* Model.parse                                                             *)

\* `.` matches every character but a line break
NoLineBreak(name, from, to) == \A i \in from..to : name[i] # "\n"

\* `.*?$` at position j: the rest has no line break, but for a last one
TailMatches(name, j) ==
    \/ NoLineBreak(name, j, Len(name))
    \/ /\ Len(name) >= j
       /\ name[Len(name)] = "\n"
       /\ NoLineBreak(name, j, Len(name) - 1)

\* open, eight hex digits, close at position i, then `.*?$`
GroupMatchesAt(open, close, name, i) ==
    /\ i + CrcLen + 1 <= Len(name)
    /\ name[i] = open
    /\ \A j \in 1..CrcLen : IsHex(name[i + j])
    /\ name[i + CrcLen + 1] = close
    /\ TailMatches(name, i + CrcLen + 2)

\* re.match(r'.*?<open>([a-fA-F0-9]{8})<close>.*?$', name).group(1): the lazy
\* prefix grows one character at a time from position i
RECURSIVE ReMatchFrom(_, _, _, _)
ReMatchFrom(open, close, name, i) ==
    IF i > Len(name) THEN None
    ELSE IF GroupMatchesAt(open, close, name, i)
         THEN SubSeq(name, i + 1, i + CrcLen)
    ELSE IF name[i] = "\n" THEN None
    ELSE ReMatchFrom(open, close, name, i + 1)

ReMatch(open, close, name) == ReMatchFrom(open, close, name, 1)

\* the same with (HHHHHHHH) tried before [HHHHHHHH]
ParseParenFirst(filename) ==
    LET crc == IF ReMatch("(", ")", filename) # None
                 THEN ReMatch("(", ")", filename)
               ELSE IF ReMatch("[", "]", filename) # None
                 THEN ReMatch("[", "]", filename)
               ELSE ReMatch("_", "_", filename)
    IN  IF crc # None THEN Upper(crc) ELSE None

Parse(filename) ==
    LET crc == IF ReMatch("[", "]", filename) # None
                 THEN ReMatch("[", "]", filename)
               ELSE IF ReMatch("(", ")", filename) # None
                 THEN ReMatch("(", ")", filename)
               ELSE ReMatch("_", "_", filename)
    IN  IF crc # None THEN Upper(crc) ELSE None

-----------------------------------------------------------------------------
(* Model.parse_line                                                        *)

NoLine == [ok |-> FALSE, name |-> <<>>, crc |-> <<>>]

\* `\s([a-fA-F0-9]{8})\s*$` right after a first group that ends at e
LineRestMatches(line, e) ==
    /\ e + 1 + CrcLen <= Len(line)
    /\ IsSpace(line[e + 1])
    /\ \A j \in 1..CrcLen : IsHex(line[e + 1 + j])
    /\ \A j \in (e + 2 + CrcLen)..Len(line) : IsSpace(line[j])

\* The greedy group `([^;]+)` first takes every character up to the first
\* `;` and then gives them back one at a time: the end of the longest first
\* group after which the rest matches, 0 when there is none.
RECURSIVE GreedyEnd(_, _)
GreedyEnd(line, e) ==
    IF e = 0 THEN 0
    ELSE IF LineRestMatches(line, e) THEN e
    ELSE GreedyEnd(line, e - 1)

\* length of the longest prefix without `;`
RECURSIVE NoSemicolonPrefix(_, _)
NoSemicolonPrefix(line, n) ==
    IF n < Len(line) /\ line[n + 1] # ";" THEN NoSemicolonPrefix(line, n + 1) ELSE n

\* str.replace('\\', '/')
ExchangeSeparators(s) == [i \in DOMAIN s |-> IF s[i] = "\\" THEN "/" ELSE s[i]]

parse_line(flgs, line) ==
    LET e == GreedyEnd(line, NoSemicolonPrefix(line, 0))
        group1 == SubSeq(line, 1, e)
        group2 == SubSeq(line, e + 2, e + 1 + CrcLen)
    IN  IF e = 0 THEN NoLine
        ELSE IF flgs.exchange
             THEN [ok |-> TRUE, name |-> ExchangeSeparators(group1), crc |-> Upper(group2)]
        ELSE [ok |-> TRUE, name |-> group1, crc |-> Upper(group2)]

-----------------------------------------------------------------------------
(* zlib.crc32 and the formatting of its value                              *)

WordBits == 32

ByteBits == 8

\* A 32 bit value: bit i of the value at index i
Word == [0..(WordBits - 1) -> {0, 1}]

ZeroWord == [i \in 0..(WordBits - 1) |-> 0]

OnesWord == [i \in 0..(WordBits - 1) |-> 1]

\* 0xEDB88320, the reflected CRC-32 polynomial
Polynomial ==
    [i \in 0..(WordBits - 1) |->
        IF i \in {31, 30, 29, 27, 26, 24, 23, 21, 20, 19, 15, 9, 8, 5} THEN 1 ELSE 0]

Xor(a, b) == [i \in 0..(WordBits - 1) |-> (a[i] + b[i]) % 2]

ShiftRight1(a) == [i \in 0..(WordBits - 1) |-> IF i = WordBits - 1 THEN 0 ELSE a[i + 1]]

ByteWord(b) ==
    [i \in 0..(WordBits - 1) |-> IF i < ByteBits THEN (b \div (2 ^ i)) % 2 ELSE 0]

RECURSIVE CrcRounds(_, _)
CrcRounds(c, n) ==
    IF n = 0 THEN c
    ELSE CrcRounds(IF c[0] = 1 THEN Xor(ShiftRight1(c), Polynomial) ELSE ShiftRight1(c),
                   n - 1)

RECURSIVE CrcBytes(_, _)
CrcBytes(c, buf) ==
    IF buf = <<>> THEN c
    ELSE CrcBytes(CrcRounds(Xor(c, ByteWord(Head(buf))), ByteBits), Tail(buf))

\* zlib.crc32(buf, current)
crc32(buf, current) == Xor(CrcBytes(Xor(current, OnesWord), buf), OnesWord)

LowerHexDigits == DecimalDigits \o <<"a","b","c","d","e","f">>

\* the hex digit of bits 4k .. 4k+3
Nibble(w, k) == w[4 * k] + 2 * w[4 * k + 1] + 4 * w[4 * k + 2] + 8 * w[4 * k + 3]

\* hex(w)[2:]: the digits from the most significant non-zero one, "0" for 0
RECURSIVE HexFrom(_, _)
HexFrom(w, k) ==
    IF k = 0 THEN <<LowerHexDigits[Nibble(w, 0) + 1]>>
    ELSE <<LowerHexDigits[Nibble(w, k) + 1]>> \o HexFrom(w, k - 1)

RECURSIVE TopNibble(_, _)
TopNibble(w, k) == IF k = 0 \/ Nibble(w, k) # 0 THEN k ELSE TopNibble(w, k - 1)

Hex(w) == HexFrom(w, TopNibble(w, (WordBits \div 4) - 1))

\* str.zfill
RECURSIVE ZFill(_, _)
ZFill(s, width) == IF Len(s) >= width THEN s ELSE ZFill(<<"0">> \o s, width)

FormatCrcLower(current) == ZFill(Hex(current), CrcLen)

\* hex(current & 0xFFFFFFFF)[2:].upper().zfill(8)
FormatCrc(current) == ZFill(Upper(Hex(current)), CrcLen)

RECURSIVE ReadLoopRestart(_, _, _)
ReadLoopRestart(bytes, block_size, current) ==
    IF bytes = <<>> THEN current
    ELSE LET n == IF Len(bytes) < block_size THEN Len(bytes) ELSE block_size
         IN  ReadLoopRestart(SubSeq(bytes, n + 1, Len(bytes)), block_size,
                             crc32(SubSeq(bytes, 1, n), ZeroWord))

\* map_.read(block_size) until it returns nothing
RECURSIVE ReadLoop(_, _, _)
ReadLoop(bytes, block_size, current) ==
    IF bytes = <<>> THEN current
    ELSE LET n == IF Len(bytes) < block_size THEN Len(bytes) ELSE block_size
         IN  ReadLoop(SubSeq(bytes, n + 1, Len(bytes)), block_size,
                      crc32(SubSeq(bytes, 1, n), current))

-----------------------------------------------------------------------------
(* Paths and the file system                                               *)

\* A path: absolute or relative to the working directory, and its components
NoPath == [abs |-> FALSE, parts |-> <<>>]

RelPath(parts) == [abs |-> FALSE, parts |-> parts]

\* The components of a name between its `/`
RECURSIVE Components(_, _)
Components(name, part) ==
    IF name = <<>> THEN (IF part = <<>> THEN <<>> ELSE <<part>>)
    ELSE IF Head(name) = "/"
         THEN (IF part = <<>> THEN <<>> ELSE <<part>>) \o Components(Tail(name), <<>>)
    ELSE Components(Tail(name), Append(part, Head(name)))

\* os.path.join(dirname, file_name)
Join(dirname, file_name) ==
    IF file_name # <<>> /\ Head(file_name) = "/"
    THEN [abs |-> TRUE, parts |-> Components(file_name, <<>>)]
    ELSE [abs |-> dirname.abs, parts |-> dirname.parts \o Components(file_name, <<>>)]

\* The absolute path the system resolves p to (os.path.abspath)
Resolve(wd, p) == IF p.abs THEN p.parts ELSE wd \o p.parts

AbsPath(wd, p) == [abs |-> TRUE, parts |-> Resolve(wd, p)]

Absent == [type |-> "absent", mode |-> "ok"]

Node(fsys, parts) == IF parts \in DOMAIN fsys THEN fsys[parts] ELSE Absent

ENOENT == 2

EACCES == 13

ENOTDIR == 20

EISDIR == 21

NoExc == [type |-> "none", errno |-> 0, filename |-> NoPath]

OSError(errno, path) == [type |-> "OSError", errno |-> errno, filename |-> path]

\* os.path.isfile / os.path.isdir
IsFile(fsys, wd, p) == Node(fsys, Resolve(wd, p)).type = "file"

IsDir(fsys, wd, p) == Node(fsys, Resolve(wd, p)).type = "dir"

\* os.listdir(dirname): the entries, or the OSError it raises
ListDir(fsys, wd, dirname) ==
    LET node == Node(fsys, Resolve(wd, dirname))
    IN  IF node.type = "absent" THEN [exc |-> OSError(ENOENT, dirname), entries |-> <<>>]
        ELSE IF node.type # "dir" THEN [exc |-> OSError(ENOTDIR, dirname), entries |-> <<>>]
        ELSE IF node.mode = "nolist" THEN [exc |-> OSError(EACCES, dirname), entries |-> <<>>]
        ELSE [exc |-> NoExc, entries |-> node.entries]

\* os.walk(top): top down, a directory that cannot be listed is left out
\* without an error (onerror is None); symbolic links are not modelled
RECURSIVE Walk(_, _, _)
RECURSIVE WalkEach(_, _, _, _)
Walk(fsys, wd, top) ==
    LET listing == ListDir(fsys, wd, top)
        isdir(n) == IsDir(fsys, wd, Join(top, n))
        notdir(n) == ~IsDir(fsys, wd, Join(top, n))
        dirs == SelectSeq(listing.entries, isdir)
        nondirs == SelectSeq(listing.entries, notdir)
    IN  IF listing.exc # NoExc THEN <<>>
        ELSE <<[dirname |-> top, names |-> nondirs]>> \o WalkEach(fsys, wd, top, dirs)

WalkEach(fsys, wd, top, dirs) ==
    IF dirs = <<>> THEN <<>>
    ELSE Walk(fsys, wd, Join(top, Head(dirs))) \o WalkEach(fsys, wd, top, Tail(dirs))

-----------------------------------------------------------------------------
(* dict, in insertion order                                                *)

DictHas(d, k) == \E i \in DOMAIN d : d[i].key = k

DictGet(d, k) == d[CHOOSE i \in DOMAIN d : d[i].key = k].val

\* d[k] = v
DictSet(d, k, v) ==
    IF DictHas(d, k)
    THEN [i \in DOMAIN d |-> IF d[i].key = k THEN [key |-> k, val |-> v] ELSE d[i]]
    ELSE Append(d, [key |-> k, val |-> v])

Keys(d) == {d[i].key : i \in DOMAIN d}

\* comparison of two (name, crc) tuples
ItemLess(a, b) ==
    \/ StrLess(a.key, b.key)
    \/ a.key = b.key /\ StrLess(a.val, b.val)

RECURSIVE InsertSorted(_, _)
InsertSorted(x, s) ==
    IF s = <<>> THEN <<x>>
    ELSE IF ItemLess(x, Head(s)) THEN <<x>> \o s
    ELSE <<Head(s)>> \o InsertSorted(x, Tail(s))

RECURSIVE SortItems(_)
SortItems(d) == IF d = <<>> THEN <<>> ELSE InsertSorted(Head(d), SortItems(Tail(d)))

\* the items as the dict iterates them
InsertionOrder(d) == d

\* sorted(crcs.items())
Sorted(d) == SortItems(d)

-----------------------------------------------------------------------------
(* Model.get_crcs                                                          *)

SfvSuffix == <<".", "s", "f", "v">>

\* no_case_files: lowercase name -> the name with the real case
RECURSIVE NoCaseFiles(_, _)
NoCaseFiles(files, d) ==
    IF files = <<>> THEN d
    ELSE NoCaseFiles(Tail(files), DictSet(d, Lower(Head(files)), Head(files)))

\* the key a name parsed from an sfv-file is stored under
SfvKey(flgs, no_case_files, file_name) ==
    IF ~flgs.case /\ DictHas(no_case_files, Lower(file_name))
    THEN DictGet(no_case_files, Lower(file_name))
    ELSE file_name

\* for line in file_: ...
RECURSIVE SfvLines(_, _, _, _)
SfvLines(flgs, no_case_files, lines, crcs) ==
    IF lines = <<>> THEN crcs
    ELSE LET result == parse_line(flgs, Head(lines))
         IN  SfvLines(flgs, no_case_files, Tail(lines),
                      IF result.ok
                      THEN DictSet(crcs, SfvKey(flgs, no_case_files, result.name),
                                   result.crc)
                      ELSE crcs)

\* for sfv_file in sfv_files: with open(sfv_file, 'r', errors='replace') ...
\* The working directory is wd; an open that fails ends the loop.
RECURSIVE SfvFiles(_, _, _, _, _, _)
SfvFiles(fsys, wd, flgs, no_case_files, sfv_files, crcs) ==
    IF sfv_files = <<>> THEN [exc |-> NoExc, crcs |-> crcs]
    ELSE LET node == Node(fsys, wd \o Components(Head(sfv_files), <<>>))
         IN  IF node.mode = "noperm"
             THEN [exc |-> OSError(EACCES, RelPath(<<Head(sfv_files)>>)), crcs |-> crcs]
             ELSE SfvFiles(fsys, wd, flgs, no_case_files, Tail(sfv_files),
                           SfvLines(flgs, no_case_files, node.lines, crcs))

\* the same, a checksum already in crcs being kept
RECURSIVE FileNameCrcsKeep(_, _)
FileNameCrcsKeep(files, crcs) ==
    IF files = <<>> THEN crcs
    ELSE FileNameCrcsKeep(Tail(files),
            IF Parse(Head(files)) # None /\ ~DictHas(crcs, Head(files))
            THEN DictSet(crcs, Head(files), Parse(Head(files)))
            ELSE crcs)

\* for file in files: crc = self.parse(file) ...
RECURSIVE FileNameCrcs(_, _)
FileNameCrcs(files, crcs) ==
    IF files = <<>> THEN crcs
    ELSE FileNameCrcs(Tail(files),
            IF Parse(Head(files)) # None
            THEN DictSet(crcs, Head(files), Parse(Head(files)))
            ELSE crcs)

\* get_crcs(dirname, file_names) called with working directory wd: the
\* exception it raises or the dict it returns, and the working directory
\* it leaves
get_crcs(fsys, flgs, wd, dirname, names) ==
    LET old_cwd == wd
        new_cwd == Resolve(wd, dirname)
        isfile(n) == IsFile(fsys, new_cwd, RelPath(Components(n, <<>>)))
        files == SelectSeq(names, isfile)
        issfv(n) == EndsWith(Lower(n), SfvSuffix)
        sfv_files == SelectSeq(files, issfv)
        no_case_files == IF ~flgs.case THEN NoCaseFiles(files, <<>>) ELSE <<>>
        fromSfv == IF sfv_files # <<>> /\ flgs.sfv
                   THEN SfvFiles(fsys, new_cwd, flgs, no_case_files, sfv_files, <<>>)
                   ELSE [exc |-> NoExc, crcs |-> <<>>]
    IN  IF Node(fsys, new_cwd).type # "dir"
        THEN [exc |-> OSError(IF Node(fsys, new_cwd).type = "absent"
                              THEN ENOENT ELSE ENOTDIR, dirname),
              crcs |-> <<>>, cwd |-> old_cwd]
        ELSE IF fromSfv.exc # NoExc
        THEN [exc |-> fromSfv.exc, crcs |-> <<>>, cwd |-> new_cwd]
        ELSE [exc |-> NoExc,
              crcs |-> IF flgs.crc THEN FileNameCrcs(files, fromSfv.crcs)
                       ELSE fromSfv.crcs,
              cwd |-> old_cwd]

-----------------------------------------------------------------------------
(* Model.crc32_of_file                                                     *)

ValueError(path) == [type |-> "ValueError", errno |-> 0, filename |-> path]

\* crc32_of_file(filepath) with working directory wd. OpenAndMap is the
\* exception its two with statements raise, if any: open(filepath, 'r+') fails
\* for a path that does not exist, a directory and a file without permission;
\* mmap raises ValueError for an empty file. crc32_of_file is the checksum
\* returned when they raise nothing.
OpenAndMap(fsys, wd, filepath) ==
    LET node == Node(fsys, Resolve(wd, filepath))
    IN  IF node.type = "absent" THEN OSError(ENOENT, filepath)
        ELSE IF node.type = "dir" THEN OSError(EISDIR, filepath)
        ELSE IF node.mode = "noperm" THEN OSError(EACCES, filepath)
        ELSE IF node.bytes = <<>> THEN ValueError(filepath)
        ELSE NoExc

crc32_of_file(fsys, wd, filepath, block_size) ==
    FormatCrc(ReadLoop(Node(fsys, Resolve(wd, filepath)).bytes, block_size, ZeroWord))

-----------------------------------------------------------------------------
(* Status                                                                  *)

\* Status(nr_files)
Status(nr_files) ==
    [nr_missing |-> 0, nr_different |-> 0, nr_successful |-> 0,
     nr_read_errors |-> 0, nr_dirs |-> 0, nr_files |-> nr_files]

\* the same, nr_files left as it was
StatusUpdateNoFiles(self, other) ==
    [nr_missing |-> self.nr_missing + other.nr_missing,
     nr_different |-> self.nr_different + other.nr_different,
     nr_successful |-> self.nr_successful + other.nr_successful,
     nr_read_errors |-> self.nr_read_errors + other.nr_read_errors,
     nr_dirs |-> self.nr_dirs + 1,
     nr_files |-> self.nr_files]

\* Status.update
StatusUpdate(self, other) ==
    [nr_missing |-> self.nr_missing + other.nr_missing,
     nr_different |-> self.nr_different + other.nr_different,
     nr_successful |-> self.nr_successful + other.nr_successful,
     nr_read_errors |-> self.nr_read_errors + other.nr_read_errors,
     nr_dirs |-> self.nr_dirs + 1,
     nr_files |-> self.nr_files + other.nr_files]

everything_okNoReadErrors(self) ==
    self.nr_different = self.nr_missing /\ self.nr_missing = 0

\* Status.everything_ok
everything_ok(self) ==
    self.nr_read_errors = self.nr_different /\ self.nr_different = self.nr_missing
    /\ self.nr_missing = 0

-----------------------------------------------------------------------------
(* The flags, arguments and file systems of the runs                       *)

MaxDirArgs == 2

SeqsUpTo(S, n) == UNION {[1..k -> S] : k \in 0..n}

nA == <<"a">>

nUpperA == <<"A">>

nMissing == <<"m">>

nSub == <<"s">>

nD1 == <<"d", "1">>

nD2 == <<"d", "2">>

nSfv == <<"c", ".", "S", "f", "v">>

\* crc32 of the one byte 0 is D202EF8D, of the one byte 1 it is A505DF1B
nTag == <<"t", "[", "d", "2", "0", "2", "e", "f", "8", "d", "]">>

nParen == <<"p", "(", "A", "5", "0", "5", "D", "F", "1", "B", ")">>

nBad == <<"u", "_", "0", "0", "0", "0", "0", "0", "0", "0", "_">>

crcOfZeroByte == <<"d", "2", "0", "2", "e", "f", "8", "d">>

crcZero == <<"0", "0", "0", "0", "0", "0", "0", "0">>

SfvLine(name, crc) == name \o <<" ">> \o crc \o <<"\n">>

CommentLine == <<";", " ", "a", " ">> \o crcZero \o <<"\n">>

File(mode, bytes, lines) ==
    [type |-> "file", mode |-> mode, bytes |-> bytes, lines |-> lines]

Dir(mode, entries) == [type |-> "dir", mode |-> mode, entries |-> entries]

\* what d1/a is: read to the end with the checksum of the sfv-file or another
\* one, empty, without permission, or not there
KindsOfA == {"match", "differ", "empty", "noperm", "absent"}

FileA(kind) ==
    IF kind = "match" THEN File("ok", <<0>>, <<>>)
    ELSE IF kind = "differ" THEN File("ok", <<0, 1>>, <<>>)
    ELSE IF kind = "empty" THEN File("ok", <<>>, <<>>)
    ELSE File("noperm", <<0>>, <<>>)

\* what d1/c.Sfv is: not there, without permission, or one of three texts
KindsOfSfv == {"absent", "noperm", "one", "missing", "case"}

SfvText(kind) ==
    IF kind = "one" THEN <<SfvLine(nA, crcOfZeroByte)>>
    ELSE IF kind = "missing"
         THEN <<SfvLine(nMissing, crcZero), SfvLine(nA, crcOfZeroByte)>>
    ELSE <<CommentLine, SfvLine(nUpperA, crcOfZeroByte), SfvLine(nTag, crcZero)>>

FileSfv(kind) ==
    IF kind = "noperm" THEN File("noperm", <<0>>, <<>>)
    ELSE File("ok", <<0>>, SfvText(kind))

\* /d1 with t[d202ef8d], c.Sfv, the directory s and a; /d1/s with
\* u_00000000_; /d2 with p(A505DF1B)
FileSystem(kindA, kindSfv, modeD2) ==
    (<<>> :> Dir("ok", <<nD2, nD1>>))
    @@ (<<nD1>> :> Dir("ok", <<nTag>>
                            \o (IF kindSfv = "absent" THEN <<>> ELSE <<nSfv>>)
                            \o <<nSub>>
                            \o (IF kindA = "absent" THEN <<>> ELSE <<nA>>)))
    @@ (<<nD1, nTag>> :> File("ok", <<0>>, <<>>))
    @@ (IF kindSfv = "absent" THEN <<>> ELSE (<<nD1, nSfv>> :> FileSfv(kindSfv)))
    @@ (IF kindA = "absent" THEN <<>> ELSE (<<nD1, nA>> :> FileA(kindA)))
    @@ (<<nD1, nSub>> :> Dir("ok", <<nBad>>))
    @@ (<<nD1, nSub, nBad>> :> File("ok", <<0>>, <<>>))
    @@ (<<nD2>> :> Dir(modeD2, <<nParen>>))
    @@ (<<nD2, nParen>> :> File("ok", <<1>>, <<>>))

World(a, sfv, d2) == [a |-> a, sfv |-> sfv, d2 |-> d2]

\* every kind of d1/a beside the one line sfv-file, every kind of sfv-file
\* beside the matching d1/a, and /d2 not listable
Worlds ==
    {World(a, "one", "ok") : a \in KindsOfA}
    \cup {World("match", sfv, "ok") : sfv \in KindsOfSfv}
    \cup {World(a, "one", "nolist") : a \in {"match", "empty"}}

\* the file system: absolute path -> node
fs == FileSystem(world.a, world.sfv, world.d2)

DirArgs == {RelPath(<<nD1>>), RelPath(<<nD2>>), RelPath(<<nD1, nSub>>)}

\* no explicit file, one, or three of two directories
FileArgLists ==
    {<<>>,
     <<RelPath(<<nD1, nA>>)>>,
     <<RelPath(<<nD1, nA>>), RelPath(<<nD2, nParen>>), RelPath(<<nD1, nTag>>)>>}

\* the values the option parser can produce; -x is left to the specifications
\* of parse_line and get_crcs
AllFlags ==
    [recursive : BOOLEAN, case : BOOLEAN, exchange : BOOLEAN, crc : BOOLEAN,
     sfv : BOOLEAN, directory : BOOLEAN]

DefaultFlags ==
    [recursive |-> FALSE, case |-> FALSE, exchange |-> FALSE, crc |-> TRUE,
     sfv |-> TRUE, directory |-> FALSE]

\* with -C run stops before it reads another flag
RunFlags ==
    {f \in AllFlags : /\ ~f.exchange
                      /\ f.directory => f = [DefaultFlags EXCEPT !.directory = TRUE]}

-----------------------------------------------------------------------------
(* Model.run and Model.check_dir                                           *)

\* Model.block_size
BlockSize == 1

Event(ev, dir, name, crc, real_crc) ==
    [ev |-> ev, dir |-> dir, name |-> name, crc |-> crc, real_crc |-> real_crc]

Hook(ev) == Event(ev, NoPath, <<>>, <<>>, <<>>)

AttributeError == [type |-> "AttributeError", errno |-> 0, filename |-> NoPath]

\* os.path.split(file_name)
SplitHead(p) == [abs |-> p.abs, parts |-> SubSeq(p.parts, 1, Len(p.parts) - 1)]

SplitTail(p) == p.parts[Len(p.parts)]

\* files_by_dir: the absolute directory of each explicit file -> its files
RECURSIVE FilesByDir(_, _, _)
FilesByDir(wd, names, d) ==
    IF names = <<>> THEN d
    ELSE LET head == AbsPath(wd, SplitHead(Head(names)))
             tail == SplitTail(Head(names))
         IN  FilesByDir(wd, Tail(names),
                        DictSet(d, head,
                                IF DictHas(d, head) THEN Append(DictGet(d, head), tail)
                                ELSE <<tail>>))

Unit(dirname, names) == [kind |-> "unit", dirname |-> dirname, names |-> names]

ListDirUnit(dirname) == [kind |-> "listdir", dirname |-> dirname, names |-> <<>>]

\* the check_dir calls of `for dirname, file_names in files_by_dir.items()`
FileUnits(d) == [i \in DOMAIN d |-> Unit(d[i].key, d[i].val)]

\* the check_dir calls of `for dirname in self.dir_names`: the directories
\* os.walk yields, or the one directory that os.listdir is to list
RECURSIVE DirUnits(_, _, _, _)
DirUnits(fsys, flgs, wd, names) ==
    IF names = <<>> THEN <<>>
    ELSE (IF flgs.recursive
          THEN LET w == Walk(fsys, wd, Head(names))
               IN  [i \in DOMAIN w |-> Unit(w[i].dirname, w[i].names)]
          ELSE <<ListDirUnit(Head(names))>>)
         \o DirUnits(fsys, flgs, wd, Tail(names))

dir_stat == dir_stats[Len(dir_stats)]

dirname == Head(todo).dirname

\* the file names check_dir is called with for the unit at hand
UnitNames ==
    IF Head(todo).kind = "listdir" THEN ListDir(fs, cwd, dirname).entries
    ELSE Head(todo).names

SetDirStat(field) ==
    [dir_stats EXCEPT ![Len(dir_stats)] = [@ EXCEPT ![field] = @ + 1]]

inputVars == <<flags, world, file_names, dir_names, fin, fout>>

guiVars == <<want_abort, reading>>

windowVars == <<running, model, status, threads, posted>>

MaxModels == 2

Models == 1..MaxModels

\* a GuiModel that was not made yet, and the one GuiModel.__init__ makes
NoThread ==
    [pc |-> "none", want_abort |-> FALSE, left |-> 0, nrfiles |-> 0,
     everythingok |-> TRUE]

\* Gui.__init__: no check is running, no model was made, nothing is posted
GuiInit ==
    /\ running = FALSE
    /\ model = 0
    /\ status = ""
    /\ threads = [m \in Models |-> NoThread]
    /\ posted = <<>>

\* run, up to its loops: self.start(), and os.chdir(self.flags.dirname) when
\* flags.directory is set. The option parser stores -C as flags.directory,
\* there is no flags.dirname: the attribute lookup raises.
RunStartChdir ==
    /\ pc = "ready"
    /\ flags.directory
    /\ events' = Append(events, Hook("start"))
    /\ raised' = AttributeError
    /\ pc' = "raised"
    /\ UNCHANGED <<windowVars, inputVars, guiVars, cwd, todo, queue, dir_stats, total_stat>>

RunStart ==
    /\ pc = "ready"
    /\ ~flags.directory
    /\ events' = Append(events, Hook("start"))
    /\ todo' = FileUnits(FilesByDir(cwd, file_names, <<>>))
               \o DirUnits(fs, flags, cwd, dir_names)
    /\ pc' = "loop"
    /\ UNCHANGED <<windowVars, inputVars, guiVars, cwd, queue, dir_stats, total_stat, raised>>

\* check_dir(dirname, os.listdir(dirname)): os.listdir raises
ListDirRaises ==
    /\ pc = "loop"
    /\ todo # <<>>
    /\ Head(todo).kind = "listdir"
    /\ ListDir(fs, cwd, dirname).exc # NoExc
    /\ raised' = ListDir(fs, cwd, dirname).exc
    /\ pc' = "raised"
    /\ UNCHANGED <<windowVars, inputVars, guiVars, cwd, todo, queue, dir_stats, total_stat, events>>

UnitReady ==
    /\ pc = "loop"
    /\ todo # <<>>
    /\ Head(todo).kind = "listdir" => ListDir(fs, cwd, dirname).exc = NoExc

\* check_dir: get_crcs raises
GetCrcsRaises ==
    /\ UnitReady
    /\ LET r == get_crcs(fs, flags, cwd, dirname, UnitNames)
       IN  /\ r.exc # NoExc
           /\ raised' = r.exc
           /\ cwd' = r.cwd
    /\ pc' = "raised"
    /\ UNCHANGED <<windowVars, inputVars, guiVars, todo, queue, dir_stats, total_stat, events>>

\* crcs is empty and the directory is counted all the same
CheckDirSkipCounted ==
    /\ UnitReady
    /\ LET r == get_crcs(fs, flags, cwd, dirname, UnitNames)
       IN  /\ r.exc = NoExc
           /\ r.crcs = <<>>
           /\ cwd' = r.cwd
    /\ total_stat' = StatusUpdate(total_stat, Status(0))
    /\ todo' = Tail(todo)
    /\ UNCHANGED <<windowVars, inputVars, guiVars, pc, queue, dir_stats, events, raised>>

\* check_dir: crcs is empty
CheckDirSkip ==
    /\ UnitReady
    /\ LET r == get_crcs(fs, flags, cwd, dirname, UnitNames)
       IN  /\ r.exc = NoExc
           /\ r.crcs = <<>>
           /\ cwd' = r.cwd
    /\ todo' = Tail(todo)
    /\ UNCHANGED <<windowVars, inputVars, guiVars, pc, queue, dir_stats, total_stat, events, raised>>

\* check_dir up to its loop: dir_stat = Status(len(crcs)), directory_start
CheckDirStart ==
    /\ UnitReady
    /\ LET r == get_crcs(fs, flags, cwd, dirname, UnitNames)
       IN  /\ r.exc = NoExc
           /\ r.crcs # <<>>
           /\ cwd' = r.cwd
           /\ dir_stats' = Append(dir_stats, Status(Len(r.crcs)))
           /\ queue' = Sorted(r.crcs)
    /\ events' = Append(events, Event("directory_start", dirname, <<>>, <<>>, <<>>))
    /\ pc' = "files"
    /\ UNCHANGED <<windowVars, inputVars, guiVars, todo, total_stat, raised>>

\* os.path.join(dirname, file_name) for the file at the head of the queue
FilePath == Join(dirname, Head(queue).key)

\* the exception crc32_of_file raises for it
FileExc == OpenAndMap(fs, cwd, FilePath)

FileStep == pc = "files" /\ queue # <<>>

\* except IOError as e: e.errno == 2
FileMissing ==
    /\ FileStep
    /\ LET e == FileExc IN e.type = "OSError" /\ e.errno = 2
    /\ dir_stats' = SetDirStat("nr_missing")
    /\ events' = Append(events, Event("file_missing", NoPath, Head(queue).key, <<>>, <<>>))
    /\ queue' = Tail(queue)
    /\ UNCHANGED <<windowVars, inputVars, guiVars, cwd, pc, todo, total_stat, raised>>

\* except IOError as e: any other errno
FileReadError ==
    /\ FileStep
    /\ LET e == FileExc IN e.type = "OSError" /\ e.errno # 2
    /\ dir_stats' = SetDirStat("nr_read_errors")
    /\ events' = Append(events,
                        Event("file_read_error", NoPath, Head(queue).key, <<>>, <<>>))
    /\ queue' = Tail(queue)
    /\ UNCHANGED <<windowVars, inputVars, guiVars, cwd, pc, todo, total_stat, raised>>

\* an exception that is no IOError leaves check_dir and run
FileRaises ==
    /\ FileStep
    /\ FileExc.type \notin {"none", "OSError"}
    /\ raised' = FileExc
    /\ pc' = "raised"
    /\ UNCHANGED <<windowVars, inputVars, guiVars, cwd, todo, queue, dir_stats, total_stat, events>>

\* else: crc == real_crc
FileOk ==
    /\ FileStep
    /\ FileExc = NoExc
    /\ Head(queue).val = crc32_of_file(fs, cwd, FilePath, BlockSize)
    /\ dir_stats' = SetDirStat("nr_successful")
    /\ events' = Append(events, Event("file_ok", NoPath, Head(queue).key, <<>>, <<>>))
    /\ queue' = Tail(queue)
    /\ UNCHANGED <<windowVars, inputVars, guiVars, cwd, pc, todo, total_stat, raised>>

\* else: crc != real_crc
FileDifferent ==
    /\ FileStep
    /\ FileExc = NoExc
    /\ LET real_crc == crc32_of_file(fs, cwd, FilePath, BlockSize)
       IN  /\ Head(queue).val # real_crc
           /\ events' = Append(events, Event("file_different", NoPath, Head(queue).key,
                                             Head(queue).val, real_crc))
    /\ dir_stats' = SetDirStat("nr_different")
    /\ queue' = Tail(queue)
    /\ UNCHANGED <<windowVars, inputVars, guiVars, cwd, pc, todo, total_stat, raised>>

\* after the loop: self.total_stat.update(dir_stat), directory_end
CheckDirEnd ==
    /\ pc = "files"
    /\ queue = <<>>
    /\ total_stat' = StatusUpdate(total_stat, dir_stat)
    /\ events' = Append(events, Hook("directory_end"))
    /\ todo' = Tail(todo)
    /\ pc' = "loop"
    /\ UNCHANGED <<windowVars, inputVars, guiVars, cwd, queue, dir_stats, raised>>

\* after both loops: self.end()
RunEnd ==
    /\ pc = "loop"
    /\ todo = <<>>
    /\ events' = Append(events, Hook("end"))
    /\ pc' = "done"
    /\ UNCHANGED <<windowVars, inputVars, guiVars, cwd, todo, queue, dir_stats, total_stat, raised>>

\* a count where the sum wants a truth value
ExitStatusOfCounts(total) ==
    total.nr_different + total.nr_missing * 2 + total.nr_read_errors * 4

\* TextModel.end (src/src/text.py), the end hook of the command line: the
\* status it leaves the process with, sys.exit((nrdifferent > 0) +
\* (nrmissing > 0) * 2 + (nrreaderrors > 0) * 4)
ExitStatus(total) ==
    (IF total.nr_different > 0 THEN 1 ELSE 0)
    + (IF total.nr_missing > 0 THEN 1 ELSE 0) * 2
    + (IF total.nr_read_errors > 0 THEN 1 ELSE 0) * 4

-----------------------------------------------------------------------------
(* The specification of a run                                              *)

Idle == <<>>

\* the state after Model.__init__
Init ==
    /\ flags \in RunFlags
    /\ world \in Worlds
    /\ file_names \in FileArgLists
    /\ dir_names \in SeqsUpTo(DirArgs, MaxDirArgs)
    /\ flags.directory => /\ world = World("match", "one", "ok")
                          /\ file_names = <<>>
    /\ cwd = <<>>
    /\ pc = "ready"
    /\ todo = <<>>
    /\ queue = <<>>
    /\ dir_stats = <<>>
    /\ total_stat = Status(0)
    /\ events = <<>>
    /\ raised = NoExc
    /\ want_abort = FALSE
    /\ reading = Idle
    /\ GuiInit
    /\ fin = Idle
    /\ fout = Idle

Next ==
    \/ RunStartChdir
    \/ RunStart
    \/ ListDirRaises
    \/ GetCrcsRaises
    \/ CheckDirSkip
    \/ CheckDirStart
    \/ FileMissing
    \/ FileReadError
    \/ FileRaises
    \/ FileOk
    \/ FileDifferent
    \/ CheckDirEnd
    \/ RunEnd

Spec == Init /\ [][Next]_vars

-----------------------------------------------------------------------------
(* The specification of runs of one Model, one after the other             *)

MaxRuns == 2

\* the number of calls of run so far
Runs == Cardinality({i \in DOMAIN events : events[i].ev = "start"})

InitAgain ==
    /\ Init
    /\ file_names = <<>>
    /\ Len(dir_names) <= 1

\* run has returned and is called again on the same Model: nothing of the
\* Model is set anew, total_stat was made in __init__
RunAgain ==
    /\ pc = "done"
    /\ Runs < MaxRuns
    /\ pc' = "ready"
    /\ UNCHANGED <<windowVars, inputVars, guiVars, cwd, todo, queue, dir_stats, total_stat, events,
                   raised>>

NextAgain == Next \/ RunAgain

SpecAgain == InitAgain /\ [][NextAgain]_vars

-----------------------------------------------------------------------------
(* The specification of Model.parse: one call on a file name               *)

MaxTokens == 2

OpenOf(k) == <<"[", "(", "_">>[k]

CloseOf(k) == <<"]", ")", "_">>[k]

\* n hex digits that tell the pattern k and the variant v they were made for
HexRun(k, v, n) ==
    [i \in 1..n |-> IF i = 1 THEN <<"a", "B", "c">>[k]
                    ELSE IF i = n THEN <<"e", "F">>[v]
                    ELSE DecimalDigits[k + 1]]

Token(k, run) == <<OpenOf(k)>> \o run \o <<CloseOf(k)>>

\* the three patterns with eight hex digits (two of each), with seven and
\* nine, and with a letter that is no hex digit; a letter; a line break
Tokens ==
    {Token(k, HexRun(k, v, CrcLen)) : k \in 1..3, v \in 1..2}
    \cup {Token(k, HexRun(k, 1, n)) : k \in 1..3, n \in {CrcLen - 1, CrcLen + 1}}
    \cup {Token(k, [HexRun(k, 1, CrcLen) EXCEPT ![2] = "g"]) : k \in 1..3}
    \cup {<<"x">>, <<"\n">>}

RECURSIVE Flatten(_)
Flatten(ss) == IF ss = <<>> THEN <<>> ELSE Head(ss) \o Flatten(Tail(ss))

ParseNames == {Flatten(ts) : ts \in SeqsUpTo(Tokens, MaxTokens)}

InitParse ==
    /\ fin \in {[name |-> n] : n \in ParseNames}
    /\ fout = Idle
    /\ pc = "parse"
    /\ flags = DefaultFlags
    /\ world = World("match", "one", "ok")
    /\ file_names = <<>>
    /\ dir_names = <<>>
    /\ cwd = <<>>
    /\ todo = <<>>
    /\ queue = <<>>
    /\ dir_stats = <<>>
    /\ total_stat = Status(0)
    /\ events = <<>>
    /\ raised = NoExc
    /\ want_abort = FALSE
    /\ reading = Idle
    /\ GuiInit

ParseCall ==
    /\ pc = "parse"
    /\ fout' = Parse(fin.name)
    /\ pc' = "parsed"
    /\ UNCHANGED <<windowVars, flags, world, file_names, dir_names, fin, cwd, todo, queue,
                   dir_stats, total_stat, events, raised, guiVars>>

NextParse == ParseCall

SpecParse == InitParse /\ [][NextParse]_vars

-----------------------------------------------------------------------------
(* The specification of Model.get_crcs: one call on a directory            *)

MaxLines == 2

nD == <<"d">>

nSfv2 == <<"e", ".", "s", "f", "v">>

nUpperTag == Upper(nTag)

crcOfOneByte == <<"a", "5", "0", "5", "d", "f", "1", "b">>

\* lines for a under two spellings, for t[d202ef8d] under two spellings with
\* other checksums than the one in its name, for a file that is not there
\* and for a file of the directory s
SfvLines1 ==
    {SfvLine(nA, crcOfZeroByte),
     SfvLine(nUpperA, crcZero),
     SfvLine(nTag, crcZero),
     SfvLine(nUpperTag, crcOfOneByte),
     SfvLine(nMissing, crcZero),
     SfvLine(nSub \o <<"\\">> \o nA, crcZero)}

\* the two orders the directory is listed in
Listing(order) ==
    IF order = 1 THEN <<nTag, nSub, nA, nSfv, nSfv2>>
    ELSE <<nSfv2, nSfv, nA, nSub, nTag>>

\* /d with a, t[d202ef8d], the directory s and the sfv-files c.Sfv and e.sfv
CrcsFileSystem(in) ==
    (<<>> :> Dir("ok", <<nD>>))
    @@ (<<nD>> :> Dir("ok", Listing(in.order)))
    @@ (<<nD, nA>> :> File("ok", <<0>>, <<>>))
    @@ (<<nD, nTag>> :> File("ok", <<0>>, <<>>))
    @@ (<<nD, nSub>> :> Dir("ok", <<nA>>))
    @@ (<<nD, nSub, nA>> :> File("ok", <<1>>, <<>>))
    @@ (<<nD, nSfv>> :> File("ok", <<0>>, in.c))
    @@ (<<nD, nSfv2>> :> File("ok", <<0>>, in.e))

CrcsFlags == {f \in AllFlags : ~f.directory /\ ~f.recursive}

InitCrcs ==
    /\ flags \in CrcsFlags
    /\ fin \in [order : {1, 2}, c : SeqsUpTo(SfvLines1, MaxLines),
                e : SeqsUpTo(SfvLines1, 1)]
    /\ fout = Idle
    /\ pc = "get_crcs"
    /\ world = World("match", "one", "ok")
    /\ file_names = <<>>
    /\ dir_names = <<>>
    /\ cwd = <<>>
    /\ todo = <<>>
    /\ queue = <<>>
    /\ dir_stats = <<>>
    /\ total_stat = Status(0)
    /\ events = <<>>
    /\ raised = NoExc
    /\ want_abort = FALSE
    /\ reading = Idle
    /\ GuiInit

GetCrcsCall ==
    /\ pc = "get_crcs"
    /\ LET r == get_crcs(CrcsFileSystem(fin), flags, cwd, RelPath(<<nD>>),
                         Listing(fin.order))
       IN  /\ fout' = r.crcs
           /\ raised' = r.exc
           /\ cwd' = r.cwd
    /\ pc' = "returned"
    /\ UNCHANGED <<windowVars, flags, world, file_names, dir_names, fin, todo, queue,
                   dir_stats, total_stat, events, guiVars>>

NextCrcs == GetCrcsCall

SpecCrcs == InitCrcs /\ [][NextCrcs]_vars

-----------------------------------------------------------------------------
(* The specification of a run of a GuiModel (src/src/gui.py): the run is   *)
(* made in a thread of its own, crc32_of_file calls the block hook after   *)
(* every block it has read, and the Stop button of the window sets         *)
(* want_abort at any time in between. gui.py names its hooks blockread,    *)
(* filestart, fileok, ...; they are taken here as the overrides of         *)
(* Model.block_read, file_start, file_ok, ... that they are written to be. *)
(* The number of files GuiModel.start posts to the window is not modelled. *)

\* sys.exit() in blockread
SystemExit == [type |-> "SystemExit", errno |-> 0, filename |-> NoPath]

\* the bytes map_.read(self.block_size) returns at the position reached
NextBlock ==
    LET bytes == Node(fs, Resolve(cwd, FilePath)).bytes
    IN  SubSeq(bytes, reading.pos + 1,
               IF reading.pos + BlockSize <= Len(bytes) THEN reading.pos + BlockSize
               ELSE Len(bytes))

\* what CheckPanel.flags can give
GuiFlags == {f \in RunFlags : ~f.directory /\ ~f.case}

InitGui ==
    /\ flags \in GuiFlags
    /\ world \in Worlds
    /\ file_names = <<>>
    /\ dir_names \in SeqsUpTo(DirArgs, MaxDirArgs)
    /\ cwd = <<>>
    /\ pc = "ready"
    /\ todo = <<>>
    /\ queue = <<>>
    /\ dir_stats = <<>>
    /\ total_stat = Status(0)
    /\ events = <<>>
    /\ raised = NoExc
    /\ want_abort = FALSE
    /\ reading = Idle
    /\ GuiInit
    /\ fin = Idle
    /\ fout = Idle

\* the run is in progress
Running == pc \in {"loop", "files", "reading"}

\* Gui.OnStopButton: self.model.abort()
Abort ==
    /\ Running
    /\ ~want_abort
    /\ want_abort' = TRUE
    /\ UNCHANGED <<windowVars, engineVars, fin, fout, reading>>

\* crc32_of_file: open and mmap succeed, file_start, current = 0
GuiFileStart ==
    /\ FileStep
    /\ FileExc = NoExc
    /\ reading' = [pos |-> 0, current |-> ZeroWord]
    /\ pc' = "reading"
    /\ UNCHANGED <<windowVars, inputVars, want_abort, cwd, todo, queue, dir_stats, total_stat,
                   events, raised>>

\* one turn of the loop with a block read: crc32, then blockread, which
\* posts an event to the window
GuiBlockRead ==
    /\ pc = "reading"
    /\ NextBlock # <<>>
    /\ ~want_abort
    /\ reading' = [pos |-> reading.pos + Len(NextBlock),
                   current |-> crc32(NextBlock, reading.current)]
    /\ UNCHANGED <<windowVars, engineVars, fin, fout, want_abort>>

\* one turn of the loop with a block read: crc32, then blockread, which
\* finds want_abort set: sys.exit() leaves crc32_of_file, check_dir and run
GuiBlockReadAbort ==
    /\ pc = "reading"
    /\ NextBlock # <<>>
    /\ want_abort
    /\ reading' = Idle
    /\ raised' = SystemExit
    /\ pc' = "raised"
    /\ UNCHANGED <<windowVars, inputVars, want_abort, cwd, todo, queue, dir_stats, total_stat,
                   events>>

\* the loop ends with an empty read: the checksums are equal
GuiFileOk ==
    /\ pc = "reading"
    /\ NextBlock = <<>>
    /\ Head(queue).val = FormatCrc(reading.current)
    /\ dir_stats' = SetDirStat("nr_successful")
    /\ events' = Append(events, Event("file_ok", NoPath, Head(queue).key, <<>>, <<>>))
    /\ queue' = Tail(queue)
    /\ reading' = Idle
    /\ pc' = "files"
    /\ UNCHANGED <<windowVars, inputVars, want_abort, cwd, todo, total_stat, raised>>

\* the loop ends with an empty read: the checksums differ
GuiFileDifferent ==
    /\ pc = "reading"
    /\ NextBlock = <<>>
    /\ Head(queue).val # FormatCrc(reading.current)
    /\ dir_stats' = SetDirStat("nr_different")
    /\ events' = Append(events, Event("file_different", NoPath, Head(queue).key,
                                      Head(queue).val, FormatCrc(reading.current)))
    /\ queue' = Tail(queue)
    /\ reading' = Idle
    /\ pc' = "files"
    /\ UNCHANGED <<windowVars, inputVars, want_abort, cwd, todo, total_stat, raised>>

NextGui ==
    \/ RunStart
    \/ Abort
    \/ ListDirRaises
    \/ GetCrcsRaises
    \/ CheckDirSkip
    \/ CheckDirStart
    \/ FileMissing
    \/ FileReadError
    \/ FileRaises
    \/ GuiFileStart
    \/ GuiBlockRead
    \/ GuiBlockReadAbort
    \/ GuiFileOk
    \/ GuiFileDifferent
    \/ CheckDirEnd
    \/ RunEnd

SpecGui == InitGui /\ [][NextGui]_vars

-----------------------------------------------------------------------------
(* The specification of Model.crc32_of_file and Model.parse, one after the *)
(* other: the checksum of a file is computed, put into a file name in one  *)
(* of the three patterns, and the name is parsed                           *)

MaxBytes == 3

MaxBlockSize == 2

\* byte values with the lowest and the highest bit
ByteValues == {0, 1, 128}

\* / with the file a of the bytes given
CodecFileSystem(in) ==
    (<<>> :> Dir("ok", <<nA>>)) @@ (<<nA>> :> File("ok", in.bytes, <<>>))

\* what stands before the pattern in the name: nothing, letters with a
\* closing bracket, a line break, _ with eight hex digits, [00000000] and
\* (00000000)
NamesBefore ==
    {<<>>, <<"x", "]">>, <<"\n">>, <<"_">> \o crcZero, Token(1, crcZero),
     Token(2, crcZero)}

\* what stands after it
NamesAfter == {<<>>, <<"x">>, <<"\n", "x">>}

InitCodec ==
    /\ fin \in [bytes : SeqsUpTo(ByteValues, MaxBytes), block_size : 1..MaxBlockSize]
    /\ fout = Idle
    /\ pc = "crc32_of_file"
    /\ flags = DefaultFlags
    /\ world = World("match", "one", "ok")
    /\ file_names = <<>>
    /\ dir_names = <<>>
    /\ cwd = <<>>
    /\ todo = <<>>
    /\ queue = <<>>
    /\ dir_stats = <<>>
    /\ total_stat = Status(0)
    /\ events = <<>>
    /\ raised = NoExc
    /\ want_abort = FALSE
    /\ reading = Idle
    /\ GuiInit

\* crc32_of_file('a') returns
Crc32OfFileCall ==
    /\ pc = "crc32_of_file"
    /\ OpenAndMap(CodecFileSystem(fin), cwd, RelPath(<<nA>>)) = NoExc
    /\ fout' = [crc |-> crc32_of_file(CodecFileSystem(fin), cwd, RelPath(<<nA>>),
                                      fin.block_size)]
    /\ pc' = "checksum"
    /\ UNCHANGED <<windowVars, flags, world, file_names, dir_names, cwd, todo, queue, dir_stats,
                   total_stat, events, raised, fin, guiVars>>

\* crc32_of_file('a') raises
Crc32OfFileRaises ==
    /\ pc = "crc32_of_file"
    /\ OpenAndMap(CodecFileSystem(fin), cwd, RelPath(<<nA>>)) # NoExc
    /\ raised' = OpenAndMap(CodecFileSystem(fin), cwd, RelPath(<<nA>>))
    /\ pc' = "raised"
    /\ UNCHANGED <<windowVars, flags, world, file_names, dir_names, cwd, todo, queue, dir_stats,
                   total_stat, events, fin, fout, guiVars>>

\* parse of a name with the checksum in pattern k
ParseEmbedded ==
    /\ pc = "checksum"
    /\ \E before \in NamesBefore, after \in NamesAfter, k \in 1..3 :
          LET name == before \o Token(k, fout.crc) \o after
          IN  fout' = [crc |-> fout.crc, before |-> before, after |-> after, k |-> k,
                       parsed |-> Parse(name)]
    /\ pc' = "embedded"
    /\ UNCHANGED <<windowVars, flags, world, file_names, dir_names, cwd, todo, queue, dir_stats,
                   total_stat, events, raised, fin, guiVars>>

NextCodec ==
    \/ Crc32OfFileCall
    \/ Crc32OfFileRaises
    \/ ParseEmbedded

SpecCodec == InitCodec /\ [][NextCodec]_vars

-----------------------------------------------------------------------------
(* Properties of a run                                                     *)

\* run has returned or an exception has left it
Terminal == pc \in {"done", "raised"}

FileEvents == {"file_ok", "file_missing", "file_read_error", "file_different"}

Indices(ev) == {i \in DOMAIN events : events[i].ev = ev}

Count(ev) == Cardinality(Indices(ev))

\* the number of units started up to event i, which is the unit i is in
UnitOf(i) == Cardinality({j \in 1..i : events[j].ev = "directory_start"})

\* the number of units that are open after event i
Open(i) == UnitOf(i) - Cardinality({j \in 1..i : events[j].ev = "directory_end"})

NotificationsInOrder ==
    /\ Len(events) >= 2
    /\ events[1].ev = "start"
    /\ events[Len(events)].ev = "end"
    /\ \A i \in 2..(Len(events) - 1) : events[i].ev \notin {"start", "end"}
    /\ \A i \in DOMAIN events :
          /\ Open(i) \in {0, 1}
          /\ events[i].ev \in FileEvents => Open(i) = 1
    /\ Open(Len(events)) = 0

\* C1: when run is over, the notifications are start, then for each unit
\* directory_start, its file notifications and directory_end, then end:
\* start first and once, end last and once, every file notification between
\* a directory_start and its directory_end, no unit left open or nested.
C1_NotificationOrder == Terminal => NotificationsInOrder

Sum4(st) == st.nr_successful + st.nr_different + st.nr_missing + st.nr_read_errors

\* the notifications ev of unit i
UnitEvents(i, ev) == {j \in Indices(ev) : UnitOf(j) = i}

\* C2: the four outcome counters of the run total add up to its nr_files in
\* every state of a run; those of a directory Status add up to its nr_files
\* once its directory_end is emitted; and each file notification of a unit
\* is counted in exactly the one counter of its outcome.
C2_CountersAddUp ==
    /\ Sum4(total_stat) = total_stat.nr_files
    /\ \A i \in DOMAIN dir_stats :
          /\ i <= Count("directory_end") => Sum4(dir_stats[i]) = dir_stats[i].nr_files
          /\ dir_stats[i].nr_successful = Cardinality(UnitEvents(i, "file_ok"))
          /\ dir_stats[i].nr_different = Cardinality(UnitEvents(i, "file_different"))
          /\ dir_stats[i].nr_missing = Cardinality(UnitEvents(i, "file_missing"))
          /\ dir_stats[i].nr_read_errors = Cardinality(UnitEvents(i, "file_read_error"))

\* a finished run with a unit in which one file was missing and one was ok
C2_Witness ==
    /\ pc = "done"
    /\ \E i \in DOMAIN dir_stats :
          /\ dir_stats[i].nr_missing > 0
          /\ dir_stats[i].nr_successful > 0
          /\ total_stat.nr_files >= dir_stats[i].nr_files
          /\ dir_stats[i].nr_files >= 2

RECURSIVE SumField(_, _)
SumField(stats, field) ==
    IF stats = <<>> THEN 0 ELSE Head(stats)[field] + SumField(Tail(stats), field)

\* C3: when run is over, every counter of the run total is the sum of that
\* counter over the directory Statuses check_dir created, and nr_dirs is
\* their number.
C3_TotalIsSum ==
    Terminal =>
        /\ \A field \in {"nr_files", "nr_successful", "nr_different", "nr_missing",
                        "nr_read_errors"} :
              total_stat[field] = SumField(dir_stats, field)
        /\ total_stat.nr_dirs = Len(dir_stats)

FileEvent(ev) == Event(ev, NoPath, Head(queue).key, <<>>, <<>>)

\* The outcome the rule gives the file at the head of the queue: Missing
\* when its path does not exist, ReadError when it cannot be opened or read,
\* else Ok or Mismatch by the checksum of all its bytes. For an empty file,
\* which has the checksum 00000000 but cannot be mapped, ReadError is taken
\* as an outcome of the rule as well.
RuleOutcomes ==
    LET node == Node(fs, Resolve(cwd, FilePath))
        expected == Head(queue).val
        actual == FormatCrc(crc32(node.bytes, ZeroWord))
    IN  IF node.type = "absent" THEN {FileEvent("file_missing")}
        ELSE IF node.type # "file" \/ node.mode = "noperm"
             THEN {FileEvent("file_read_error")}
        ELSE (IF expected = actual THEN {FileEvent("file_ok")}
              ELSE {Event("file_different", NoPath, Head(queue).key, expected, actual)})
             \cup (IF node.bytes = <<>> THEN {FileEvent("file_read_error")} ELSE {})

\* C4: the step that verifies a file of the unit's mapping notifies the
\* outcome the rule gives that file.
C4_OutcomeByRule ==
    [][FileStep => \E e \in RuleOutcomes : events' = Append(events, e)]_vars

\* C5: whatever happens to a file, the step that verifies it goes on to the
\* rest of the unit: the run is not left.
C5_FileFailureDoesNotAbort ==
    [][FileStep => pc' = "files" /\ queue' = Tail(queue)]_vars

Unlistable(d) == ListDir(fs, <<>>, d).exc # NoExc

\* the caller of run gets an error that names d
Surfaced(d) == raised.type = "OSError" /\ raised.filename = d

\* a listable directory argument in which get_crcs finds checksums
HasCrcs(d) ==
    /\ ~Unlistable(d)
    /\ LET r == get_crcs(fs, flags, <<>>, d, ListDir(fs, <<>>, d).entries)
       IN  r.exc = NoExc /\ r.crcs # <<>>

Verified(d) == \E i \in Indices("directory_start") : events[i].dir = d

\* C6: when run is over and a directory argument could not be listed, the
\* caller has an error for that argument, every other directory argument
\* with checksums was verified, and end was emitted.
C6_UnlistableDirectory ==
    Terminal =>
        \A i \in DOMAIN dir_names :
            Unlistable(dir_names[i]) =>
                /\ Surfaced(dir_names[i])
                /\ \A j \in DOMAIN dir_names :
                      HasCrcs(dir_names[j]) => Verified(dir_names[j])
                /\ events # <<>> /\ events[Len(events)].ev = "end"

\* C10: two file notifications of a unit that follow one another are in
\* strictly increasing order of file name.
C10_SortedWithinUnit ==
    \A i \in DOMAIN events :
        (i < Len(events) /\ events[i].ev \in FileEvents /\ events[i + 1].ev \in FileEvents)
            => StrLess(events[i].name, events[i + 1].name)

\* a unit whose sfv-file names m before a and whose listing has t[d202ef8d]
\* first is notified in the order a, m, t[d202ef8d]
C10_Witness ==
    /\ world.sfv = "missing"
    /\ \E i \in DOMAIN events :
          /\ i + 2 <= Len(events)
          /\ events[i].ev \in FileEvents /\ events[i].name = nA
          /\ events[i + 1].ev \in FileEvents /\ events[i + 1].name = nMissing
          /\ events[i + 2].ev \in FileEvents /\ events[i + 2].name = nTag

-----------------------------------------------------------------------------
(* Properties of get_crcs                                                  *)

\* the regular files of the directory get_crcs was called on
DiskFiles ==
    {n \in Range(Listing(fin.order)) :
        IsFile(CrcsFileSystem(fin), <<nD>>, RelPath(<<n>>))}

\* what parse_line makes of the lines of the two sfv-files
SfvEntries ==
    {parse_line(flags, line) : line \in Range(fin.c) \cup Range(fin.e)} \ {NoLine}

Returned == pc = "returned" /\ raised = NoExc

\* C7: with checksums from file names and from sfv-files both enabled, a
\* file with a checksum in its name that an sfv-file has a line for has
\* exactly one entry in the dict returned, with the checksum of its name.
C7_FileNameCrcWins ==
    (Returned /\ flags.crc /\ flags.sfv) =>
        \A f \in DiskFiles :
            (Parse(f) # None /\ \E e \in SfvEntries : Lower(e.name) = Lower(f)) =>
                /\ Cardinality({i \in DOMAIN fout : fout[i].key = f}) = 1
                /\ DictGet(fout, f) = Parse(f)

\* both sfv-files have a line for t[d202ef8d] with another checksum than the
\* one in its name, which is the one returned
C7_Witness ==
    /\ Returned /\ flags.crc /\ flags.sfv
    /\ SfvLine(nTag, crcZero) \in Range(fin.c)
    /\ SfvLine(nTag, crcZero) \in Range(fin.e)
    /\ DictGet(fout, nTag) = Upper(crcOfZeroByte)

\* C9: with -i given, a key of the dict returned that is, but for case, the
\* name of a file of the directory is the name of a file of the directory.
C9_OnDiskSpelling ==
    (Returned /\ flags.case) =>
        \A key \in Keys(fout) :
            (\E f \in DiskFiles : Lower(f) = Lower(key)) => key \in DiskFiles

-----------------------------------------------------------------------------
(* Properties of parse                                                     *)

\* pattern k with eight hex digits stands at position i of the name
PatternAt(k, name, i) ==
    /\ i + CrcLen + 1 <= Len(name)
    /\ name[i] = OpenOf(k)
    /\ \A j \in 1..CrcLen : IsHex(name[i + j])
    /\ name[i + CrcLen + 1] = CloseOf(k)

Occurs(k, name) == \E i \in DOMAIN name : PatternAt(k, name, i)

\* the positions at which the regular expression of pattern k matches
MatchPositions(k, name) ==
    {i \in DOMAIN name : /\ GroupMatchesAt(OpenOf(k), CloseOf(k), name, i)
                         /\ NoLineBreak(name, 1, i - 1)}

Min(S) == CHOOSE x \in S : \A y \in S : x <= y

Digits(name, i) == SubSeq(name, i + 1, i + CrcLen)

\* C8: parse returns the checksum, in upper case, of the first of the
\* patterns [..], (..), _.._ that matches, at the leftmost place it matches,
\* wherever the other patterns stand; it returns None when no pattern with
\* eight hex digits is in the name; and in a name without line break a
\* pattern matches wherever it stands.
C8_ParsePriority ==
    pc = "parsed" =>
        LET name == fin.name
            matching == {k \in 1..3 : MatchPositions(k, name) # {}}
        IN  /\ matching = {} => fout = None
            /\ matching # {} =>
                  fout = Upper(Digits(name, Min(MatchPositions(Min(matching), name))))
            /\ (\A k \in 1..3 : ~Occurs(k, name)) => fout = None
            /\ NoLineBreak(name, 1, Len(name)) =>
                  \A k \in 1..3 : Occurs(k, name) <=> k \in matching

\* a name with (HHHHHHHH) before [HHHHHHHH]: the checksum in [..] is returned
C8_Witness ==
    /\ pc = "parsed"
    /\ \E i, j \in DOMAIN fin.name :
          /\ i < j
          /\ PatternAt(2, fin.name, i)
          /\ PatternAt(1, fin.name, j)
          /\ fout = Upper(Digits(fin.name, j))
          /\ fout # Upper(Digits(fin.name, i))
          /\ fout # Digits(fin.name, j)

-----------------------------------------------------------------------------
(* Properties of a run: units and files verified more than once            *)

\* the directory of the unit that notification i belongs to
UnitDir(i) ==
    LET starts == {j \in Indices("directory_start") : j <= i}
    IN  events[CHOOSE j \in starts : \A k \in starts : k <= j].dir

\* the file on disk that file notification i is about
PhysicalFile(i) == Resolve(<<>>, Join(UnitDir(i), events[i].name))

\* C11: in one run no directory is the unit of two directory_start
\* notifications and no file on disk has two file notifications.
C11_NothingVerifiedTwice ==
    /\ \A i, j \in Indices("directory_start") :
          i # j => Resolve(<<>>, events[i].dir) # Resolve(<<>>, events[j].dir)
    /\ \A i, j \in DOMAIN events :
          (i # j /\ events[i].ev \in FileEvents /\ events[j].ev \in FileEvents)
              => PhysicalFile(i) # PhysicalFile(j)

-----------------------------------------------------------------------------
(* Properties of a run of a GuiModel                                       *)

\* the step makes a notification of one of the kinds
Notified(kinds) ==
    /\ Len(events') = Len(events) + 1
    /\ events'[Len(events')].ev \in kinds

\* C12: once want_abort is set, no step of the run notifies the outcome of
\* a file other than the one being read, no step starts to read a file and
\* no step starts a unit.
C12_AbortStops ==
    [][want_abort =>
          /\ Notified(FileEvents) => pc = "reading"
          /\ pc' = "reading" => pc = "reading"
          /\ ~Notified({"directory_start"})]_vars

-----------------------------------------------------------------------------
(* Properties of crc32_of_file and parse                                   *)

UpperHexDigits == Range(DecimalDigits) \cup {UpperLetters[i] : i \in 1..6}

Plain(s) == \A i \in DOMAIN s : s[i] \notin {"[", "(", "_", "\n"}

C17_PartialTotal ==
    (pc = "raised" /\ raised = SystemExit) =>
        /\ total_stat.nr_successful = Count("file_ok")
        /\ total_stat.nr_different = Count("file_different")
        /\ total_stat.nr_missing = Count("file_missing")
        /\ total_stat.nr_read_errors = Count("file_read_error")

-----------------------------------------------------------------------------
(* Properties of check_dir                                                 *)

\* the dict get_crcs returns for the unit at hand
UnitCrcs == get_crcs(fs, flags, cwd, dirname, UnitNames)

\* C19: the step of check_dir for a unit for which get_crcs returns an
\* empty dict makes no notification and leaves the run total and the
\* directory Statuses as they are; a file notification is for a key of the
\* dict of its unit, and nr_files of a directory Status is the number of
\* keys of the dict of its unit.
C19_EmptyUnitSkipped ==
    [][/\ (UnitReady /\ UnitCrcs.exc = NoExc /\ UnitCrcs.crcs = <<>>) =>
             (events' = events /\ total_stat' = total_stat /\ dir_stats' = dir_stats)
       /\ Notified(FileEvents) => events'[Len(events')].name \in Keys(UnitCrcs.crcs)
       /\ Notified({"directory_start"}) =>
             dir_stats'[Len(dir_stats')].nr_files = Cardinality(Keys(UnitCrcs.crcs))]_vars

\* a run over d2 and d1 without checksums from file names: d2, which has
\* no sfv-file, is skipped, only d1 is started and counted
C19_Witness ==
    /\ pc = "done"
    /\ ~flags.crc /\ ~flags.recursive
    /\ file_names = <<>>
    /\ dir_names = <<RelPath(<<nD2>>), RelPath(<<nD1>>)>>
    /\ Count("directory_start") = 1
    /\ total_stat.nr_dirs = 1
    /\ total_stat.nr_files = 1

\* C20: no step of a run changes the working directory: get_crcs, which
\* enters the directory of the unit, leaves it again however it is left.
C20_WorkingDirectoryKept == [][cwd' = cwd]_vars

-----------------------------------------------------------------------------
(* Properties of the end of a run                                          *)

\* 1 when a notification of the kind was made in the run, else 0
OneIfAny(ev) == IF Indices(ev) = {} THEN 0 ELSE 1

-----------------------------------------------------------------------------
(* Properties of two runs of one Model                                     *)

\* the place of the start notification of the second run
SecondStart == CHOOSE i \in Indices("start") : i > 1

\* the number of directory Statuses of the first run
FirstUnits == Cardinality({i \in Indices("directory_start") : i < SecondStart})

\* C15: when run has returned a second time on the same Model and files,
\* the second run has made the notifications of the first and the same
\* directory Statuses, and the run total is the sum of the directory
\* Statuses of the second run alone.
C15_SecondRunAlike ==
    (pc = "done" /\ Runs = 2) =>
        LET stats2 == SubSeq(dir_stats, FirstUnits + 1, Len(dir_stats))
        IN  /\ SubSeq(events, SecondStart, Len(events)) = SubSeq(events, 1, SecondStart - 1)
            /\ stats2 = SubSeq(dir_stats, 1, FirstUnits)
            /\ \A field \in {"nr_files", "nr_successful", "nr_different", "nr_missing",
                            "nr_read_errors"} :
                  total_stat[field] = SumField(stats2, field)
            /\ total_stat.nr_dirs = Len(stats2)

-----------------------------------------------------------------------------
(* Properties of everything_ok                                             *)

\* C16: everything_ok of the run total and of every directory Status is
\* true exactly when nr_different, nr_missing and nr_read_errors are all 0;
\* when run has returned, everything_ok of the run total is true exactly
\* when every file notification of the run, in whatever directory, is
\* file_ok.
C16_EverythingOk ==
    /\ \A i \in 0..Len(dir_stats) :
          LET st == IF i = 0 THEN total_stat ELSE dir_stats[i]
          IN  everything_ok(st) <=>
                  (st.nr_different = 0 /\ st.nr_missing = 0 /\ st.nr_read_errors = 0)
    /\ pc = "done" =>
          (everything_ok(total_stat) <=>
              \A i \in DOMAIN events : events[i].ev \in FileEvents => events[i].ev = "file_ok")

\* two directories in one run, the first all ok, the second with one
\* file different: the run total is not ok, with one different of two files
C16_Witness ==
    /\ pc = "done"
    /\ Len(dir_stats) = 2
    /\ everything_ok(dir_stats[1])
    /\ ~everything_ok(dir_stats[2])
    /\ ~everything_ok(total_stat)
    /\ total_stat.nr_different = 1
    /\ total_stat.nr_files = dir_stats[1].nr_files + dir_stats[2].nr_files

-----------------------------------------------------------------------------
(* The window of the graphical front end: its Start and Stop buttons, the  *)
(* threads it starts and the events they post to it                        *)
(*                                                                         *)
(* A thread runs GuiModel.run on the model that OnStartButton made. Of a   *)
(* run the window sees only what the hooks post: the StartEvent of start,  *)
(* the EndEvent of end, and the poll of want_abort that blockread makes    *)
(* for every block read. The thread here verifies `left` directories of    *)
(* one file of one block each, so total_stat counts a file as soon as it   *)
(* is verified. The gauges and the list of the window, which               *)
(* OnUpdate, OnFileStart and OnFileUpdate alone change, are left out, and  *)
(* so are the events posted for them. An event carries, besides the fields *)
(* gui.py gives it, the model whose thread posted it (sender), which the   *)
(* code does not record.                                                   *)

MaxFiles == 2

\* the threads that were started and have not terminated
Alive == {m \in Models : threads[m].pc \in {"start", "checking"}}

\* OnStartButton: refused while running is set; otherwise a new GuiModel
\* replaces self.model and a thread is started on its run. running is left
\* as it is: only OnStart sets it.
OnStartButton ==
    /\ IF running
       THEN /\ status' = "CRC-checking already running"
            /\ UNCHANGED <<running, model, threads, posted>>
       ELSE /\ model < MaxModels
            /\ model' = model + 1
            /\ \E left \in 0..MaxFiles :
                   threads' = [threads EXCEPT ![model + 1] =
                                  [NoThread EXCEPT !.pc = "start", !.left = left]]
            /\ status' = "Preparing CRC-checking"
            /\ UNCHANGED <<running, posted>>
    /\ UNCHANGED <<engineVars, fin, fout, guiVars>>

\* OnStartButton when Thread.start raises ThreadError: the model is made,
\* no thread runs it
OnStartButtonThreadError ==
    /\ ~running
    /\ model < MaxModels
    /\ model' = model + 1
    /\ threads' = [threads EXCEPT ![model + 1] = [NoThread EXCEPT !.pc = "unstarted"]]
    /\ running' = FALSE
    /\ status' = "can't start new thread"
    /\ UNCHANGED <<engineVars, fin, fout, guiVars, posted>>

\* OnStopButton: abort() of the model in self.model, and running is cleared
\* at once
OnStopButton ==
    /\ IF running
       THEN /\ threads' = [threads EXCEPT ![model].want_abort = TRUE]
            /\ running' = FALSE
            /\ status' = "CRC-checking stopped"
       ELSE /\ status' = "No CRC-checking to stop"
            /\ UNCHANGED <<running, threads>>
    /\ UNCHANGED <<engineVars, fin, fout, guiVars, model, posted>>

\* OnStart: the handler of a StartEvent
OnStart ==
    /\ posted # <<>>
    /\ Head(posted).kind = "StartEvent"
    /\ status' = "CRC-checking in progress"
    /\ running' = TRUE
    /\ posted' = Tail(posted)
    /\ UNCHANGED <<engineVars, fin, fout, guiVars, model, threads>>

\* OnEnd: the handler of an EndEvent; it reads the total of self.model
OnEnd ==
    /\ posted # <<>>
    /\ Head(posted).kind = "EndEvent"
    /\ status' = IF threads[model].nrfiles = 0
                 THEN "No CRC-sums found"
                 ELSE IF Head(posted).everythingok
                      THEN "CRC-checking complete. Everything OK"
                      ELSE "CRC-checking complete. Errors occured"
    /\ running' = FALSE
    /\ posted' = Tail(posted)
    /\ UNCHANGED <<engineVars, fin, fout, guiVars, model, threads>>

\* GuiModel.start, called first by run in the thread: posts the StartEvent
ThreadStart(m) ==
    /\ threads[m].pc = "start"
    /\ posted' = Append(posted, [kind |-> "StartEvent", sender |-> m,
                                 totalnrfiles |-> threads[m].left,
                                 everythingok |-> TRUE])
    /\ threads' = [threads EXCEPT ![m].pc = "checking"]
    /\ UNCHANGED <<engineVars, fin, fout, guiVars, running, model, status>>

\* GuiModel.start when os.listdir of a directory argument raises: the
\* exception ends the thread, nothing is posted
ThreadRaises(m) ==
    /\ threads[m].pc = "start"
    /\ threads' = [threads EXCEPT ![m].pc = "terminated"]
    /\ UNCHANGED <<engineVars, fin, fout, guiVars, running, model, status, posted>>

\* GuiModel.blockread with want_abort clear, and the file then found right
ThreadBlockRead(m) ==
    /\ threads[m].pc = "checking"
    /\ threads[m].left > 0
    /\ ~threads[m].want_abort
    /\ threads' = [threads EXCEPT ![m].left = @ - 1, ![m].nrfiles = @ + 1]
    /\ UNCHANGED <<engineVars, fin, fout, guiVars, running, model, status, posted>>

\* GuiModel.blockread with want_abort set: sys.exit() ends the thread
ThreadBlockReadAbort(m) ==
    /\ threads[m].pc = "checking"
    /\ threads[m].left > 0
    /\ threads[m].want_abort
    /\ threads' = [threads EXCEPT ![m].pc = "terminated"]
    /\ UNCHANGED <<engineVars, fin, fout, guiVars, running, model, status, posted>>

\* a file that cannot be opened: no block is read, want_abort is not looked at
ThreadFileMissing(m) ==
    /\ threads[m].pc = "checking"
    /\ threads[m].left > 0
    /\ threads' = [threads EXCEPT ![m].left = @ - 1, ![m].nrfiles = @ + 1,
                                  ![m].everythingok = FALSE]
    /\ UNCHANGED <<engineVars, fin, fout, guiVars, running, model, status, posted>>

\* GuiModel.end, called last by run: posts the EndEvent, and the thread ends
ThreadEnd(m) ==
    /\ threads[m].pc = "checking"
    /\ threads[m].left = 0
    /\ posted' = Append(posted, [kind |-> "EndEvent", sender |-> m,
                                 totalnrfiles |-> 0,
                                 everythingok |-> threads[m].everythingok])
    /\ threads' = [threads EXCEPT ![m].pc = "terminated"]
    /\ UNCHANGED <<engineVars, fin, fout, guiVars, running, model, status>>

InitWindow ==
    /\ flags = DefaultFlags
    /\ world = World("match", "one", "ok")
    /\ file_names = <<>>
    /\ dir_names = <<>>
    /\ cwd = <<>>
    /\ pc = "window"
    /\ todo = <<>>
    /\ queue = <<>>
    /\ dir_stats = <<>>
    /\ total_stat = Status(0)
    /\ events = <<>>
    /\ raised = NoExc
    /\ fin = Idle
    /\ fout = Idle
    /\ want_abort = FALSE
    /\ reading = Idle
    /\ GuiInit

NextWindow ==
    \/ OnStartButton
    \/ OnStartButtonThreadError
    \/ OnStopButton
    \/ OnStart
    \/ OnEnd
    \/ \E m \in Models : ThreadStart(m)
    \/ \E m \in Models : ThreadRaises(m)
    \/ \E m \in Models : ThreadBlockRead(m)
    \/ \E m \in Models : ThreadBlockReadAbort(m)
    \/ \E m \in Models : ThreadFileMissing(m)
    \/ \E m \in Models : ThreadEnd(m)

SpecWindow == InitWindow /\ [][NextWindow]_vars

-----------------------------------------------------------------------------
(* Properties of the window                                                *)

\* C21: in the graphical front end at most one verification thread is
\* running at any time: at most one thread that was started has not
\* terminated, and the EndEvent that OnEnd is about to handle was posted by
\* the thread of the model in self.model.
C21_SingleThread ==
    /\ Cardinality(Alive) <= 1
    /\ (posted # <<>> /\ Head(posted).kind = "EndEvent")
           => Head(posted).sender = model

====
